---- MODULE Spec2Model ----
(***************************************************************************)
(* Model of fibonacci(n) from fibonacci.py.                                *)
(*                                                                         *)
(* A caller (the __main__ block, or the unit tests) invokes fibonacci      *)
(* repeatedly with integer arguments.  One invocation is modelled          *)
(* statement by statement: the if/elif chain of lines 14-21, the seeding   *)
(* of fib_sequence at line 23, each iteration of the for loop of lines     *)
(* 24-25 and the return of line 27.  Python lists are 0-indexed, TLA+      *)
(* sequences 1-indexed; ListGet does the conversion.  Python integers are  *)
(* unbounded, as are TLA+ integers.                                        *)
(***************************************************************************)
EXTENDS Integers, Sequences, FiniteSets, TLC

\* Largest argument the caller passes.
MaxN == 15
\* The caller passes negative arguments down to -MaxNeg.
MaxNeg == 2

Inputs == (0 - MaxNeg)..MaxN

VARIABLES
    pc,            \* position: "idle", "entry" (line 14), "loop" (line 24), "done"
    n,             \* the argument of the current call
    fib_sequence,  \* the local list (empty while unbound)
    i,             \* the loop index the range iterator yields next
    outcome,       \* "none" while running, then "list", "ValueError" or "IndexError"
    result,        \* the returned list (empty when nothing was returned)
    appends,       \* number of fib_sequence.append calls of the current call
    prev_n,        \* argument of the call completed before the current one
    prev_outcome,  \* its outcome ("none" when there was no such call)
    prev_result    \* its returned list

vars == <<pc, n, fib_sequence, i, outcome, result, appends,
          prev_n, prev_outcome, prev_result>>

locals == <<fib_sequence, i, appends>>
prev == <<prev_n, prev_outcome, prev_result>>

----------------------------------------------------------------------------
\* Pieces of the code

\* line 14: if n < 0
IsNegativeMut(k) == k <= 0
IsNegative(k) == k < 0

\* line 17: return []
ResultZero == <<>>

\* line 19: return [0]
ResultOneMut == <<0, 1>>
ResultOne == <<0>>

\* line 21: return [0, 1]
ResultTwoMut == <<1, 1>>
ResultTwo == <<0, 1>>

\* line 23: fib_sequence = [0, 1]
SeedSequence == <<0, 1>>

\* line 24: range(2, n) starts at 2 ...
RangeStartMut == 3
RangeStart == 2

\* ... and yields k while k < n
RangeYieldsMut(k, stop) == k <= stop
RangeYields(k, stop) == k < stop

\* Python list indexing: idx is valid when -len <= idx < len, a negative idx
\* counts from the end; any other idx raises IndexError.
InBounds(s, idx) == idx >= 0 - Len(s) /\ idx < Len(s)
ListGet(s, idx) == IF idx >= 0 THEN s[idx + 1] ELSE s[Len(s) + idx + 1]

\* line 25: fib_sequence[i-1] + fib_sequence[i-2]
NextElementMut(s, k) == ListGet(s, k - 1) + ListGet(s, k - 1)
NextElement(s, k) == ListGet(s, k - 1) + ListGet(s, k - 2)

----------------------------------------------------------------------------
\* The state machine

Init ==
    /\ pc = "idle"
    /\ n = 0
    /\ fib_sequence = <<>>
    /\ i = 0
    /\ outcome = "none"
    /\ result = <<>>
    /\ appends = 0
    /\ prev_n = 0
    /\ prev_outcome = "none"
    /\ prev_result = <<>>

\* The caller invokes fibonacci(k); a completed call becomes the previous one.
Call(k) ==
    /\ pc \in {"idle", "done"}
    /\ pc' = "entry"
    /\ n' = k
    /\ fib_sequence' = <<>>
    /\ i' = 0
    /\ appends' = 0
    /\ outcome' = "none"
    /\ result' = <<>>
    /\ IF pc = "done"
         THEN /\ prev_n' = n
              /\ prev_outcome' = outcome
              /\ prev_result' = result
         ELSE UNCHANGED prev

\* lines 14-15: raise ValueError
RaiseNegative ==
    /\ pc = "entry"
    /\ IsNegative(n)
    /\ pc' = "done"
    /\ outcome' = "ValueError"
    /\ UNCHANGED <<n, result, locals, prev>>

\* lines 16-17
ReturnZero ==
    /\ pc = "entry"
    /\ ~IsNegative(n)
    /\ n = 0
    /\ pc' = "done"
    /\ outcome' = "list"
    /\ result' = ResultZero
    /\ UNCHANGED <<n, locals, prev>>

\* lines 18-19
ReturnOne ==
    /\ pc = "entry"
    /\ ~IsNegative(n)
    /\ n # 0
    /\ n = 1
    /\ pc' = "done"
    /\ outcome' = "list"
    /\ result' = ResultOne
    /\ UNCHANGED <<n, locals, prev>>

\* lines 20-21
ReturnTwo ==
    /\ pc = "entry"
    /\ ~IsNegative(n)
    /\ n # 0
    /\ n # 1
    /\ n = 2
    /\ pc' = "done"
    /\ outcome' = "list"
    /\ result' = ResultTwo
    /\ UNCHANGED <<n, locals, prev>>

\* lines 23-24: no branch of the if/elif chain was taken; seed the list and
\* create the range iterator
Seed ==
    /\ pc = "entry"
    /\ ~IsNegative(n)
    /\ n # 0
    /\ n # 1
    /\ n # 2
    /\ pc' = "loop"
    /\ fib_sequence' = SeedSequence
    /\ i' = RangeStart
    /\ UNCHANGED <<n, outcome, result, appends, prev>>

\* lines 24-25: one iteration of the loop with index i
LoopBody ==
    /\ pc = "loop"
    /\ RangeYields(i, n)
    /\ IF InBounds(fib_sequence, i - 1) /\ InBounds(fib_sequence, i - 2)
         THEN /\ fib_sequence' = Append(fib_sequence, NextElement(fib_sequence, i))
              /\ appends' = appends + 1
              /\ i' = i + 1
              /\ UNCHANGED <<pc, outcome>>
         ELSE /\ pc' = "done"
              /\ outcome' = "IndexError"
              /\ UNCHANGED locals
    /\ UNCHANGED <<n, result, prev>>

\* lines 24, 27: the range is exhausted; return fib_sequence
LoopExit ==
    /\ pc = "loop"
    /\ ~RangeYields(i, n)
    /\ pc' = "done"
    /\ outcome' = "list"
    /\ result' = fib_sequence
    /\ UNCHANGED <<n, locals, prev>>

\* The steps of one invocation
Step ==
    \/ RaiseNegative
    \/ ReturnZero
    \/ ReturnOne
    \/ ReturnTwo
    \/ Seed
    \/ LoopBody
    \/ LoopExit

Next ==
    \/ \E k \in Inputs : Call(k)
    \/ Step

Spec == Init /\ [][Next]_vars

\* A started invocation keeps executing: the program is single-threaded and
\* nothing blocks between the statements of fibonacci.
FairSpec == Spec /\ WF_vars(Step)

----------------------------------------------------------------------------
\* Properties

Returned == pc = "done" /\ outcome = "list"

\* C1: for every n >= 0, fibonacci(n) returns exactly the first n Fibonacci
\* numbers in order: r[0] = 0 (if n >= 1), r[1] = 1 (if n >= 2) and
\* r[k] = r[k-1] + r[k-2] for 2 <= k < n (0-based); in particular
\* [0,1,1,2,3] for n = 5, [0,1,1,2,3,5,8,13,21,34] for n = 10 and last two
\* elements 233 and 377 for n = 15.
FibonacciCorrect ==
    (pc = "done" /\ n >= 0) =>
        /\ outcome = "list"
        /\ DOMAIN result = 1..n
        /\ (n >= 1 => result[1] = 0)
        /\ (n >= 2 => result[2] = 1)
        /\ \A k \in 3..n : result[k] = result[k - 1] + result[k - 2]
        /\ (n = 5 => result = <<0, 1, 1, 2, 3>>)
        /\ (n = 10 => result = <<0, 1, 1, 2, 3, 5, 8, 13, 21, 34>>)
        /\ (n = 15 => result[14] = 233 /\ result[15] = 377)

FibonacciCorrectWitness ==
    Returned /\ n = 15 /\ Len(result) = 15 /\ result[15] = 377

\* C2: for every n < 0 the call ends in ValueError and returns no list, the
\* check happening before any sequence is built; for every n >= 0 the call
\* never ends in an error and always returns a list.
NegativeRaises ==
    pc = "done" =>
        /\ n < 0 => /\ outcome = "ValueError"
                    /\ result = <<>>
                    /\ fib_sequence = <<>>
                    /\ appends = 0
        /\ n >= 0 => outcome = "list"

NegativeRaisesWitness ==
    pc = "done" /\ n = -1 /\ outcome = "ValueError" /\ prev_outcome = "list"

\* C3: for every n >= 0 the returned list has length exactly n.
LengthIsN ==
    (pc = "done" /\ n >= 0) => (outcome = "list" /\ Len(result) = n)

LengthIsNWitness ==
    Returned /\ n = 7 /\ Len(result) = 7 /\ appends = 5

\* C4: fibonacci(0) returns [], fibonacci(1) returns [0] and fibonacci(2)
\* returns [0, 1], each without entering the loop; the seed [0, 1] is never
\* returned for n = 0 or n = 1.
BoundaryResults ==
    (pc = "done" /\ n \in 0..2) =>
        /\ outcome = "list"
        /\ appends = 0
        /\ fib_sequence = <<>>
        /\ (n = 0 => result = <<>>)
        /\ (n = 1 => result = <<0>>)
        /\ (n = 2 => result = <<0, 1>>)
        /\ (n < 2 => result # <<0, 1>>)

BoundaryResultsWitness ==
    Returned /\ n = 1 /\ result = <<0>> /\ prev_outcome = "list" /\ prev_n = 0

\* C5: at the start of the iteration with loop index i (2 <= i < n),
\* fib_sequence has exactly i elements, so the reads at i-1 and i-2 are
\* within 0..i-1, and no step of the loop changes an element already in the
\* list.
LoopIndexMatchesLength ==
    (pc = "loop" /\ i < n) =>
        /\ i >= 2
        /\ Len(fib_sequence) = i
        /\ i - 1 \in 0..(Len(fib_sequence) - 1)
        /\ i - 2 \in 0..(Len(fib_sequence) - 1)

LoopOnlyAppends ==
    pc = "loop" =>
        /\ Len(fib_sequence') >= Len(fib_sequence)
        /\ SubSeq(fib_sequence', 1, Len(fib_sequence)) = fib_sequence

LoopInvariant == [](LoopIndexMatchesLength /\ outcome # "IndexError")
                 /\ [][LoopOnlyAppends]_vars

LoopInvariantWitness ==
    pc = "loop" /\ n = 9 /\ i = 6 /\ Len(fib_sequence) = 6 /\ appends = 4

\* C6: for all 0 <= m <= n, fibonacci(m) equals the first m elements of
\* fibonacci(n), across the special-cased and the loop-computed inputs.
\* Two consecutive calls give the pair (m, n) in either order.
PrefixConsistent ==
    (Returned /\ prev_outcome = "list") =>
        /\ prev_n <= n => prev_result = SubSeq(result, 1, prev_n)
        /\ n <= prev_n => result = SubSeq(prev_result, 1, n)

PrefixConsistentWitness ==
    Returned /\ prev_outcome = "list" /\ prev_n = 2 /\ n = 10
             /\ prev_result = <<0, 1>> /\ Len(result) = 10

\* C7: every call terminates; for n <= 2 it finishes without executing the
\* loop body, for n >= 3 after exactly n - 2 appends.
AppendCount ==
    pc = "done" => appends = IF n >= 3 THEN n - 2 ELSE 0

Terminates == (pc = "entry" ~> pc = "done") /\ []AppendCount

TerminatesWitness ==
    pc = "done" /\ n = 12 /\ appends = 10 /\ outcome = "list"

====
